---- MODULE Spec2Model ----
(***************************************************************************)
(* Model of the ascii_basing crate (src/src/lib.rs): the Base62 codec      *)
(* encoding::encode / encoding::push_encoded and decoding::decode.         *)
(*                                                                         *)
(* Representation.  TLC integers are 32-bit signed, while the crate works  *)
(* on u32 and u64.  A machine integer is therefore a natural number held   *)
(* as a little-endian sequence of 16-bit limbs without high zero limbs     *)
(* (0 is << >>, 2^32-1 is <<65535, 65535>>).  A u32 has at most U32Limbs   *)
(* limbs and a u64 at most U64Limbs.  A char is its Unicode code point, a  *)
(* String or Chars is a sequence of chars, Option<T> is << >> (None) or    *)
(* <<x>> (Some(x)).                                                        *)
(***************************************************************************)
EXTENDS Integers, Sequences, FiniteSets, TLC

VARIABLES
    overflow_checks,  \* build profile: TRUE = arithmetic overflow panics, FALSE = wraps
    op,               \* the call whose result is held: "none", "encode", "push_encoded", "decode", "round_trip"
    value,            \* the u32 passed to encode / push_encoded
    size,             \* the Option<usize> passed to encode
    prefix,           \* the content of the String before push_encoded ran
    string,           \* the String returned by encode / left in *prefix by push_encoded
    written,          \* the Chars passed to decode
    ret               \* what the call returned: [kind, value]

vars == <<overflow_checks, op, value, size, prefix, string, written, ret>>

-----------------------------------------------------------------------------
(* Machine integers                                                        *)

LimbBase == 65536
U32Limbs == 2
U64Limbs == 4
RADIX == 36
BASE == 62
UPPER_SHIFT == 26
DEFAULT_CAPACITY == 6

None == << >>
Some(x) == <<x>>

RECURSIVE Norm(_)
Norm(n) ==
    IF n = << >> THEN << >>
    ELSE IF n[Len(n)] = 0 THEN Norm(SubSeq(n, 1, Len(n) - 1))
    ELSE n

\* n * m + c for a limb number n and small m, c
RECURSIVE MulAddRaw(_, _, _)
MulAddRaw(n, m, c) ==
    IF n = << >> THEN (IF c = 0 THEN << >> ELSE <<c>>)
    ELSE LET t == n[1] * m + c
         IN  <<t % LimbBase>> \o MulAddRaw(Tail(n), m, t \div LimbBase)

MulAdd(n, m, c) == Norm(MulAddRaw(n, m, c))

RECURSIVE AddRaw(_, _, _)
AddRaw(a, b, c) ==
    IF a = << >> /\ b = << >> THEN (IF c = 0 THEN << >> ELSE <<c>>)
    ELSE LET x == IF a = << >> THEN 0 ELSE a[1]
             y == IF b = << >> THEN 0 ELSE b[1]
             t == x + y + c
         IN  <<t % LimbBase>>
             \o AddRaw(IF a = << >> THEN a ELSE Tail(a),
                       IF b = << >> THEN b ELSE Tail(b), t \div LimbBase)

Add(a, b) == Norm(AddRaw(a, b, 0))

\* quotient and remainder of a limb number by a small divisor
RECURSIVE DivModRaw(_, _)
DivModRaw(n, m) ==
    IF n = << >> THEN [q |-> << >>, r |-> 0]
    ELSE LET hi == DivModRaw(Tail(n), m)
             t  == hi.r * LimbBase + n[1]
         IN  [q |-> <<t \div m>> \o hi.q, r |-> t % m]

Div(n, m) == Norm(DivModRaw(n, m).q)
Mod(n, m) == DivModRaw(n, m).r

RECURSIVE LessFrom(_, _, _)
LessFrom(a, b, i) ==
    IF i = 0 THEN FALSE
    ELSE IF a[i] # b[i] THEN a[i] < b[i]
    ELSE LessFrom(a, b, i - 1)

Less(a, b) ==
    IF Len(a) # Len(b) THEN Len(a) < Len(b) ELSE LessFrom(a, b, Len(a))

Leq(a, b) == a = b \/ Less(a, b)

FromInt(i) == Norm(<<i % LimbBase, i \div LimbBase>>)

\* does n fit an unsigned integer of w limbs / its value truncated to w limbs
Fits(n, w) == Len(n) <= w
Wrap(n, w) == Norm(SubSeq(n, 1, IF Len(n) < w THEN Len(n) ELSE w))

\* an arithmetic result r of an unsigned type of w limbs: a panic when it
\* overflows in a build with overflow checks, the wrapped value otherwise
Checked(r, w, checks) ==
    IF ~Fits(r, w) /\ checks THEN [panic |-> TRUE, v |-> << >>]
    ELSE [panic |-> FALSE, v |-> Wrap(r, w)]

U32_MAX == <<LimbBase - 1, LimbBase - 1>>

-----------------------------------------------------------------------------
(* char                                                                    *)

\* a from_digit that writes the digits 10..35 as 'A'..'Z'
from_digit_uppercase(num, radix) ==
    IF num < radix
    THEN (IF num < 10 THEN Some(48 + num) ELSE Some(65 + num - 10))
    ELSE None

\* char::from_digit(num, radix)
from_digit(num, radix) ==
    IF num < radix
    THEN (IF num < 10 THEN Some(48 + num) ELSE Some(97 + num - 10))
    ELSE None

\* char::to_digit(c, radix)
to_digit(c, radix) ==
    LET d == IF c >= 48 /\ c <= 57 THEN c - 48
             ELSE IF c >= 97 /\ c <= 122 THEN c - 97 + 10
             ELSE IF c >= 65 /\ c <= 90 THEN c - 65 + 10
             ELSE radix
    IN  IF d < radix THEN Some(d) ELSE None

is_ascii_uppercase(c) == c >= 65 /\ c <= 90

to_ascii_uppercase(c) == IF c >= 97 /\ c <= 122 THEN c - 32 ELSE c

-----------------------------------------------------------------------------
(* encoding                                                                *)

\* String::with_capacity(n): an empty String (the capacity is not content)
with_capacity(n) == << >>

\* a push_digit that inserts at the front of the String instead of pushing
push_digit_front(digit, s) ==
    IF from_digit(digit, RADIX) # None
    THEN [err |-> FALSE, s |-> <<from_digit(digit, RADIX)[1]>> \o s]
    ELSE [err |-> FALSE,
          s |-> <<to_ascii_uppercase(from_digit(digit - UPPER_SHIFT, RADIX)[1])>> \o s]

\* a push_digit that shifts the digits 36..61 by 10 instead of 26
push_digit_shift10(digit, s) ==
    IF from_digit(digit, RADIX) # None
    THEN [err |-> FALSE, s |-> Append(s, from_digit(digit, RADIX)[1])]
    ELSE LET shifted == from_digit(digit - 10, RADIX)
         IN  IF shifted = None THEN [err |-> TRUE, s |-> s]
             ELSE [err |-> FALSE, s |-> Append(s, to_ascii_uppercase(shifted[1]))]

\* lines 141-147 of push_encoded: the digit value % 62 pushed onto prefix;
\* err is the EncodingError of the ok_or(..)?
push_digit(digit, s) ==
    IF from_digit(digit, RADIX) # None
    THEN [err |-> FALSE, s |-> Append(s, from_digit(digit, RADIX)[1])]
    ELSE LET shifted == from_digit(digit - UPPER_SHIFT, RADIX)
         IN  IF shifted = None THEN [err |-> TRUE, s |-> s]
             ELSE [err |-> FALSE, s |-> Append(s, to_ascii_uppercase(shifted[1]))]

\* a test value != 0 in place of value / 62 != 0
has_higher_digits_nonzero(v) == v # << >>

\* line 138: is there a more significant digit to emit first
has_higher_digits(v) == Div(v, BASE) # << >>

RECURSIVE push_encoded(_, _)
push_encoded(v, s) ==
    LET higher == IF has_higher_digits(v)
                  THEN push_encoded(Div(v, BASE), s)
                  ELSE [err |-> FALSE, s |-> s]
    IN  IF higher.err THEN higher
        ELSE push_digit(Mod(v, BASE), higher.s)

\* an encode that cuts the result to the size hint
encode_truncating(v, sz) ==
    LET r == push_encoded(v, << >>)
    IN  IF sz = None \/ Len(r.s) <= sz[1] THEN r
        ELSE [err |-> r.err, s |-> SubSeq(r.s, 1, sz[1])]

\* encoding::encode: the hint only sizes the new String
encode(v, sz) ==
    LET new_value == IF sz # None THEN with_capacity(sz[1])
                     ELSE with_capacity(DEFAULT_CAPACITY)
    IN  push_encoded(v, new_value)

-----------------------------------------------------------------------------
(* decoding                                                                *)

Ok(v) == [kind |-> "Ok", value |-> v]
Err == [kind |-> "Err", value |-> << >>]
Panic == [kind |-> "Panic", value |-> << >>]

\* a digit value that forgets the 26 of an uppercase letter
digit_value_no_shift(digit) ==
    to_digit(digit, RADIX)

\* lines 210-214: the digit value of one char, None where ok_or(..)? returns
\* the DecodingError
digit_value(digit) ==
    IF is_ascii_uppercase(digit)
    THEN (IF to_digit(digit, RADIX) = None THEN None
          ELSE Some(UPPER_SHIFT + to_digit(digit, RADIX)[1]))
    ELSE to_digit(digit, RADIX)

\* lines 210-215: one pass of the loop body on the state [power, total];
\* kind is "Continue", "Err" (the ? returned) or "Panic" (overflow)
decode_step(st, digit, checks) ==
    LET dv == digit_value(digit)
    IN  IF dv = None THEN [kind |-> "Err", power |-> st.power, total |-> st.total]
        ELSE
        LET product == Checked(MulAdd(Wrap(st.power, U32Limbs), dv[1], 0), U32Limbs, checks)
            sum     == Checked(Add(st.total, product.v), U32Limbs, checks)
            next    == Checked(MulAdd(st.power, BASE, 0), U64Limbs, checks)
        IN  IF product.panic \/ sum.panic \/ next.panic
            THEN [kind |-> "Panic", power |-> st.power, total |-> st.total]
            ELSE [kind |-> "Continue", power |-> next.v, total |-> sum.v]

\* lines 209-217: while let Some(digit) = written.next_back()
RECURSIVE decode_loop(_, _, _)
decode_loop(w, st, checks) ==
    IF w = << >> THEN Ok(st.total)
    ELSE LET r == decode_step(st, w[Len(w)], checks)
         IN  IF r.kind = "Err" THEN Err
             ELSE IF r.kind = "Panic" THEN Panic
             ELSE decode_loop(SubSeq(w, 1, Len(w) - 1),
                              [power |-> r.power, total |-> r.total], checks)

\* a decode that refuses the empty sequence
decode_rejecting_empty(w, checks) ==
    IF w = << >> THEN Err
    ELSE decode_loop(w, [power |-> <<1>>, total |-> << >>], checks)

\* decoding::decode: power = 1, total = 0, then the loop
decode(w, checks) ==
    decode_loop(w, [power |-> <<1>>, total |-> << >>], checks)

-----------------------------------------------------------------------------
(* The calls a program makes                                               *)

MaxSmall == 124
MaxTop == 3
MaxHint == 7
MaxPrefix == 2
MaxBody == 2
MaxPad == 9
MaxTail == 6

\* the 62 digits in order of value (crate documentation, line 22)
Alphabet ==
    <<48, 49, 50, 51, 52, 53, 54, 55, 56, 57,
      97, 98, 99, 100, 101, 102, 103, 104, 105, 106, 107, 108, 109,
      110, 111, 112, 113, 114, 115, 116, 117, 118, 119, 120, 121, 122,
      65, 66, 67, 68, 69, 70, 71, 72, 73, 74, 75, 76, 77,
      78, 79, 80, 81, 82, 83, 84, 85, 86, 87, 88, 89, 90>>

AlphabetChars == {Alphabet[i] : i \in 1..Len(Alphabet)}
AlphabetValue(c) == (CHOOSE i \in 1..Len(Alphabet) : Alphabet[i] = c) - 1
InAlphabet(w) == \A i \in 1..Len(w) : w[i] \in AlphabetChars

\* the positional value sum(digit_i * 62^i) of a sequence of alphabet symbols
RECURSIVE RefValue(_)
RefValue(w) ==
    IF w = << >> THEN << >>
    ELSE MulAdd(RefValue(SubSeq(w, 1, Len(w) - 1)), Len(Alphabet),
                AlphabetValue(w[Len(w)]))

RECURSIVE Pow62(_)
Pow62(k) == IF k = 0 THEN <<1>> ELSE MulAdd(Pow62(k - 1), Len(Alphabet), 0)

RECURSIVE Repeat(_, _)
Repeat(c, k) == IF k = 0 THEN << >> ELSE <<c>> \o Repeat(c, k - 1)

SeqsUpTo(S, n) == UNION {[1..k -> S] : k \in 0..n}

\* '0' '1' 'z' 'A' 'Z' and, outside the alphabet, '@' and U+00E9
SampleChars == {48, 49, 122, 65, 90, 64, 233}
Bodies == SeqsUpTo(SampleChars, MaxBody)

\* "4GFfc3", "4GFfc4", "Q9z", "zQ9", "_zQ9", "1@" (documentation and tests)
DocStrings ==
    { <<52, 71, 70, 102, 99, 51>>, <<52, 71, 70, 102, 99, 52>>,
      <<81, 57, 122>>, <<122, 81, 57>>, <<95, 122, 81, 57>>, <<49, 64>> }

Inputs ==
    {Repeat(48, i) \o b : i \in 0..MaxPad, b \in Bodies}
    \cup {b \o Repeat(c, j) : b \in Bodies, c \in {48, 90}, j \in 0..MaxTail}
    \cup DocStrings

\* 137773 and 200481 (documentation)
DocValues == { <<6701, 2>>, <<3873, 3>> }

Values ==
    {FromInt(i) : i \in 0..MaxSmall}
    \cup {<<LimbBase - 1 - j, LimbBase - 1>> : j \in 0..MaxTop}
    \cup DocValues
    \cup {RefValue(w) : w \in {x \in Inputs : InAlphabet(x) /\ Fits(RefValue(x), U32Limbs)}}

Hints == {None} \cup {Some(n) : n \in 0..MaxHint}

\* '_' and '0'
Prefixes == SeqsUpTo({95, 48}, MaxPrefix)

Init ==
    /\ overflow_checks \in BOOLEAN
    /\ op = "none"
    /\ value = << >>
    /\ size = None
    /\ prefix = << >>
    /\ string = << >>
    /\ written = << >>
    /\ ret = [kind |-> "None", value |-> << >>]

\* encoding::encode(value, size)
Encode(v, sz) ==
    LET r == encode(v, sz)
    IN  /\ op = "none"
        /\ op' = "encode"
        /\ value' = v
        /\ size' = sz
        /\ prefix' = << >>
        /\ string' = r.s
        /\ written' = << >>
        /\ ret' = IF r.err THEN Err ELSE Ok(<< >>)
        /\ UNCHANGED overflow_checks

\* encoding::push_encoded(value, &mut prefix) on a String holding p
PushEncoded(v, p) ==
    LET r == push_encoded(v, p)
    IN  /\ op = "none"
        /\ op' = "push_encoded"
        /\ value' = v
        /\ size' = None
        /\ prefix' = p
        /\ string' = r.s
        /\ written' = << >>
        /\ ret' = IF r.err THEN Err ELSE Ok(<< >>)
        /\ UNCHANGED overflow_checks

\* decoding::decode(w.chars())
Decode(w) ==
    /\ op = "none"
    /\ op' = "decode"
    /\ value' = << >>
    /\ size' = None
    /\ prefix' = << >>
    /\ string' = << >>
    /\ written' = w
    /\ ret' = decode(w, overflow_checks)
    /\ UNCHANGED overflow_checks

\* decoding::decode(encoded.chars()) on the String encode just returned
RoundTrip ==
    /\ op = "encode"
    /\ ret.kind = "Ok"
    /\ op' = "round_trip"
    /\ written' = string
    /\ ret' = decode(string, overflow_checks)
    /\ UNCHANGED <<overflow_checks, value, size, prefix, string>>

\* the caller drops what the call returned; nothing outlives a call
Return ==
    /\ op # "none"
    /\ op' = "none"
    /\ value' = << >>
    /\ size' = None
    /\ prefix' = << >>
    /\ string' = << >>
    /\ written' = << >>
    /\ ret' = [kind |-> "None", value |-> << >>]
    /\ UNCHANGED overflow_checks

Next ==
    \/ \E v \in Values, sz \in Hints : Encode(v, sz)
    \/ \E v \in Values, p \in Prefixes : PushEncoded(v, p)
    \/ \E w \in Inputs : Decode(w)
    \/ RoundTrip
    \/ Return

Spec == Init /\ [][Next]_vars

-----------------------------------------------------------------------------
(* Properties                                                              *)

Zero == << >>
HasBadChar(w) == \E i \in 1..Len(w) : w[i] \notin AlphabetChars

\* s is the base-62 representation of v, most significant digit first,
\* digit i written as Alphabet[i + 1], without leading zero digits
IsRepresentation(s, v) ==
    /\ Len(s) >= 1
    /\ InAlphabet(s)
    /\ RefValue(s) = v
    /\ (Len(s) > 1 => s[1] # 48)

DigitCount(v) == Cardinality({k \in 0..6 : Leq(Pow62(k), v)})

\* 62^k - 1 and 62^k for the lengths a u32 takes
LengthBoundaries ==
    {Pow62(k) : k \in 0..5} \cup {RefValue(Repeat(90, k)) : k \in 1..5}

\* C4: minimal length.  For every value v > 0 the first symbol of
\* encode(v, _) is not '0' and its length is floor(log62(v)) + 1; so the
\* length never decreases as v grows, is at most 6 and is 6 for 2^32-1.
C4_MinimalLength ==
    (op = "encode" /\ value # Zero) =>
        /\ string # << >>
        /\ string[1] # 48
        /\ Len(string) = DigitCount(value)
        /\ Len(string) <= 6
        /\ (value = U32_MAX => Len(string) = 6)
        /\ \A u \in LengthBoundaries :
              /\ Leq(u, value) => Len(encode(u, size).s) <= Len(string)
              /\ Leq(value, u) => Len(string) <= Len(encode(u, size).s)

C4_Witness ==
    /\ op = "encode"
    /\ value = Pow62(5)
    /\ Len(string) = 6
    /\ string[1] = 49

\* C5: decode rejects malformed input.  For every character sequence with
\* at least one character outside the alphabet decode returns
\* Err(DecodingError): never Ok, and never an overflow panic first.
C5_MalformedIsErr ==
    (op = "decode" /\ HasBadChar(written)) => ret.kind = "Err"

\* C6: decode panics on out-of-range input.  For every sequence of
\* alphabet symbols whose positional value exceeds u32::MAX decode panics
\* and returns no Ok value.
C6_OutOfRangePanics ==
    (op = "decode" /\ InAlphabet(written) /\ Less(U32_MAX, RefValue(written)))
        => ret.kind = "Panic"

\* C7: empty-input asymmetry.  decode of the empty sequence is Ok(0) and
\* so is decode of "0", while encode produces "0" for 0 and for no other
\* value, and the empty String for no value.
C7_EmptyInputAsymmetry ==
    /\ (op = "decode" /\ written = << >> => ret = Ok(Zero))
    /\ (op = "decode" /\ written = <<48>> => ret = Ok(Zero))
    /\ (op = "encode" => string # << >> /\ (string = <<48>> <=> value = Zero))

C7_Witness ==
    /\ op = "decode"
    /\ written = << >>
    /\ ret = Ok(Zero)

\* C8: encode is total.  encode and push_encoded return Ok for every u32
\* value; the EncodingError branch is never taken, every digit mapped is
\* in 0..61 and every character pushed is an alphabet symbol.
C8_EncodeTotal ==
    op \in {"encode", "push_encoded"} =>
        /\ ret.kind = "Ok"
        /\ Len(string) > Len(prefix)
        /\ \A i \in (Len(prefix) + 1)..Len(string) : string[i] \in AlphabetChars

C8_Witness ==
    /\ op = "push_encoded"
    /\ Mod(value, BASE) = 61
    /\ Mod(Div(value, BASE), BASE) = 36
    /\ ret.kind = "Ok"

\* C9: push_encoded only appends.  After push_encoded(v, &mut prefix)
\* returns Ok the String is its former content followed by exactly
\* encode(v, None) ("_" and 137773 give "_zQ9").
C9_PushOnlyAppends ==
    op = "push_encoded" =>
        /\ ret.kind = "Ok"
        /\ string = prefix \o encode(value, None).s
        /\ SubSeq(string, 1, Len(prefix)) = prefix
        /\ IsRepresentation(SubSeq(string, Len(prefix) + 1, Len(string)), value)

C9_Witness ==
    /\ op = "push_encoded"
    /\ prefix = <<95>>
    /\ value = <<6701, 2>>
    /\ string = <<95, 122, 81, 57>>

\* C10: decode agrees with the reference positional evaluation.  For every
\* sequence of alphabet symbols, of any length, whose positional value is
\* at most 2^32-1, decode returns Ok of exactly that value and no
\* multiplication, addition or place-value update overflows.
C10_DecodeIsPositional ==
    (op = "decode" /\ InAlphabet(written) /\ Leq(RefValue(written), U32_MAX))
        => ret = Ok(RefValue(written))

====
